---- MODULE Spec2Model ----
(***************************************************************************)
(* Model of src/security3.py: the toy OAuth2 password flow.                *)
(*   POST /token     login                                                 *)
(*   GET  /users/me  oauth2_scheme -> get_current_user ->                  *)
(*                   get_current_active_user -> read_users_me              *)
(* Requests are handled concurrently; every request occupies one slot of   *)
(* Requests and is handled once.                                           *)
(***************************************************************************)
EXTENDS Integers, Sequences, FiniteSets, TLC

\* Number of requests the server receives in one behaviour.
MaxReqs == 3

Requests == 1..MaxReqs

\* Python's None.
None == [none |-> TRUE]

\* The credential of a request whose header has not been read.
Unset == "<unset>"

(***************************************************************************)
(* The store: fake_users_db as written in the source.                      *)
(***************************************************************************)
SeedUsers ==
    [johndoe |-> [username        |-> "johndoe",
                  full_name       |-> "John Doe",
                  email           |-> "johndoe@example.com",
                  hashed_password |-> "fakehashedsecret1",
                  disabled        |-> FALSE],
     alice   |-> [username        |-> "alice",
                  full_name       |-> "Alice Wonderson",
                  email           |-> "alice@example.com",
                  hashed_password |-> "fakehashedsecret2",
                  disabled        |-> TRUE]]

(***************************************************************************)
(* Inputs a client may send.                                               *)
(***************************************************************************)
Usernames == {"johndoe", "alice", "bob"}
Passwords == {"secret1", "secret2", "secret"}
Tokens    == {"johndoe", "alice", "bob"}

\* The Authorization header of a GET /users/me request: absent, a bearer
\* credential, or another scheme.
Authorizations ==
    {None}
      \cup {[scheme |-> "Bearer", param |-> t] : t \in Tokens}
      \cup {[scheme |-> "Basic", param |-> "johndoe"]}

(***************************************************************************)
(* Exceptions, results and responses.                                      *)
(***************************************************************************)
NoHeaders == {}
BearerChallenge == {<<"WWW-Authenticate", "Bearer">>}

HTTPException(status_code, detail, headers) ==
    [status_code |-> status_code, detail |-> detail, headers |-> headers]

Raise(exc)    == [raised |-> TRUE, exc |-> exc]
Return(value) == [raised |-> FALSE, value |-> value]

\* What the client receives for a raised HTTPException.
ErrorResponse(exc) ==
    [status_code |-> exc.status_code,
     body        |-> [detail |-> exc.detail],
     headers     |-> exc.headers]

\* What the client receives for a returned value: every field of it.
OkResponse(value) ==
    [status_code |-> 200, body |-> value, headers |-> NoHeaders]

ToResponse(result) ==
    IF result.raised THEN ErrorResponse(result.exc) ELSE OkResponse(result.value)

(***************************************************************************)
(* The functions of security3.py.                                          *)
(***************************************************************************)
\* Variant: the prefix appended instead of prepended.
fake_hash_password_suffix(password) == password \o "fakehashed"

fake_hash_password(password) == "fakehashed" \o password

UserInDBFields == {"username", "email", "full_name", "disabled", "hashed_password"}

\* UserInDB(**user_dict): the model built from the fields of the dictionary.
\* Every stored dictionary names all five fields.
UserInDB(user_dict) == [f \in UserInDBFields |-> user_dict[f]]

get_user(db, username) ==
    IF username \in DOMAIN db THEN UserInDB(db[username]) ELSE None

fake_decode_token(db, token) == get_user(db, token)

\* Variant: the scheme of the header is not looked at.
oauth2_scheme_any_scheme(authorization) ==
    IF authorization = None
    THEN [raised |-> TRUE,
          exc |-> [status_code |-> 401, detail |-> "Not authenticated",
                   headers |-> {<<"WWW-Authenticate", "Bearer">>}]]
    ELSE [raised |-> FALSE, value |-> authorization.param]

\* The dependency oauth2_scheme = OAuth2PasswordBearer(tokenUrl="token"):
\* the credential of a bearer Authorization header, else 401.
lower(scheme) == IF scheme = "Bearer" THEN "bearer" ELSE "basic"

oauth2_scheme(authorization) ==
    IF authorization = None
    THEN Raise(HTTPException(401, "Not authenticated", BearerChallenge))
    ELSE IF lower(authorization.scheme) # "bearer"
    THEN Raise(HTTPException(401, "Not authenticated", BearerChallenge))
    ELSE Return(authorization.param)

CredentialsException ==
    HTTPException(401, "Invalid authentication credentials", BearerChallenge)

get_current_user(db, token) ==
    LET user == fake_decode_token(db, token)
    IN  IF user = None THEN Raise(CredentialsException) ELSE Return(user)

\* Variant: the disabled flag is not checked.
get_current_active_user_unchecked(current_user) == Return(current_user)

get_current_active_user(current_user) ==
    IF current_user.disabled
    THEN Raise(HTTPException(400, "Inactive user", NoHeaders))
    ELSE Return(current_user)

read_users_me(current_user) == current_user

dict_get(db, key) == IF key \in DOMAIN db THEN db[key] ELSE None

\* Variant: a username missing from the store is not rejected.
login_unknown_user_ok(db, username, password) ==
    LET user_dict == dict_get(db, username)
    IN  IF user_dict = None
        THEN Return([access_token |-> username, token_type |-> "bearer"])
        ELSE IF ~(fake_hash_password(password) = UserInDB(user_dict).hashed_password)
        THEN Raise(HTTPException(400, "Incorrect username or password", NoHeaders))
        ELSE Return([access_token |-> UserInDB(user_dict).username,
                     token_type   |-> "bearer"])

\* Variant: the token is the user's full name, not the username.
login_full_name_token(db, username, password) ==
    LET user_dict == dict_get(db, username)
    IN  IF user_dict = None
        THEN Raise(HTTPException(400, "Incorrect username or password", NoHeaders))
        ELSE IF ~(fake_hash_password(password) = UserInDB(user_dict).hashed_password)
        THEN Raise(HTTPException(400, "Incorrect username or password", NoHeaders))
        ELSE Return([access_token |-> UserInDB(user_dict).full_name,
                     token_type   |-> "bearer"])

login(db, username, password) ==
    LET user_dict == dict_get(db, username)
    IN  IF user_dict = None
        THEN Raise(HTTPException(400, "Incorrect username or password", NoHeaders))
        ELSE LET user == UserInDB(user_dict)
                 hashed_password == fake_hash_password(password)
             IN  IF ~(hashed_password = user.hashed_password)
                 THEN Raise(HTTPException(400, "Incorrect username or password",
                                          NoHeaders))
                 ELSE Return([access_token |-> user.username,
                              token_type   |-> "bearer"])

\* GET /users/me handled in one piece: the dependency chain of read_users_me.
users_me(db, authorization) ==
    LET token == oauth2_scheme(authorization)
    IN  IF token.raised THEN token
        ELSE LET user == get_current_user(db, token.value)
             IN  IF user.raised THEN user
                 ELSE LET active == get_current_active_user(user.value)
                      IN  IF active.raised THEN active
                          ELSE Return(read_users_me(active.value))

(***************************************************************************)
(* State.                                                                  *)
(***************************************************************************)
VARIABLES
    fake_users_db,  \* the module-level store
    pc,             \* where each request is
    req,            \* what each request carries
    token,          \* GET /users/me: the credential oauth2_scheme extracted
    user,           \* GET /users/me: what fake_decode_token returned
    response,       \* what each request was answered with
    calls,          \* history: the functions run for each request
    issued,         \* history: the access tokens login has returned
    seen            \* history: issued, as it was when the request's token was decoded

vars == <<fake_users_db, pc, req, token, user, response, calls, issued, seen>>

Terminal == {"Authorized", "Rejected"}
LoginDone == {"LoginOk", "LoginFailed"}

Init ==
    /\ fake_users_db = SeedUsers
    /\ pc = [r \in Requests |-> "idle"]
    /\ req = [r \in Requests |-> None]
    /\ token = [r \in Requests |-> Unset]
    /\ user = [r \in Requests |-> None]
    /\ response = [r \in Requests |-> None]
    /\ calls = [r \in Requests |-> {}]
    /\ issued = {}
    /\ seen = [r \in Requests |-> {}]

(***************************************************************************)
(* POST /token. The handler has no suspension point: one step.             *)
(***************************************************************************)
\* Variant: a successful login re-enables the account in the store.
LoginWritingStore(r, username, password) ==
    /\ pc[r] = "idle"
    /\ LET result == login(fake_users_db, username, password)
       IN  /\ pc' = [pc EXCEPT ![r] = IF result.raised THEN "LoginFailed" ELSE "LoginOk"]
           /\ response' = [response EXCEPT ![r] = ToResponse(result)]
           /\ issued' = IF result.raised THEN issued
                        ELSE issued \cup {result.value.access_token}
           /\ fake_users_db' = IF result.raised THEN fake_users_db
                               ELSE [fake_users_db EXCEPT ![username].disabled = FALSE]
    /\ req' = [req EXCEPT ![r] =
                 [kind |-> "login", username |-> username, password |-> password]]
    /\ calls' = [calls EXCEPT ![r] = {"login"}]
    /\ UNCHANGED <<token, user, seen>>

Login(r, username, password) ==
    /\ pc[r] = "idle"
    /\ LET result == login(fake_users_db, username, password)
       IN  /\ pc' = [pc EXCEPT ![r] = IF result.raised THEN "LoginFailed" ELSE "LoginOk"]
           /\ response' = [response EXCEPT ![r] = ToResponse(result)]
           /\ issued' = IF result.raised THEN issued
                        ELSE issued \cup {result.value.access_token}
    /\ req' = [req EXCEPT ![r] =
                 [kind |-> "login", username |-> username, password |-> password]]
    /\ calls' = [calls EXCEPT ![r] = {"login"}]
    /\ UNCHANGED <<fake_users_db, token, user, seen>>

(***************************************************************************)
(* GET /users/me, one step per stage of the dependency chain.              *)
(***************************************************************************)
\* The request arrives; nothing has looked at its header yet.
BeginMe(r, authorization) ==
    /\ pc[r] = "idle"
    /\ pc' = [pc EXCEPT ![r] = "NoToken"]
    /\ req' = [req EXCEPT ![r] = [kind |-> "me", authorization |-> authorization]]
    /\ UNCHANGED <<fake_users_db, token, user, response, calls, issued, seen>>

\* oauth2_scheme
ExtractToken(r) ==
    /\ pc[r] = "NoToken"
    /\ LET result == oauth2_scheme(req[r].authorization)
       IN  IF result.raised
           THEN /\ pc' = [pc EXCEPT ![r] = "Rejected"]
                /\ response' = [response EXCEPT ![r] = ToResponse(result)]
                /\ UNCHANGED token
           ELSE /\ pc' = [pc EXCEPT ![r] = "TokenPresented"]
                /\ token' = [token EXCEPT ![r] = result.value]
                /\ UNCHANGED response
    /\ calls' = [calls EXCEPT ![r] = @ \cup {"oauth2_scheme"}]
    /\ UNCHANGED <<fake_users_db, req, user, issued, seen>>

\* Variant: only a token that login has issued is decoded.
DecodeTokenIssuedOnly(r) ==
    /\ pc[r] = "TokenPresented"
    /\ LET u == IF token[r] \in issued
                THEN fake_decode_token(fake_users_db, token[r]) ELSE None
       IN  /\ user' = [user EXCEPT ![r] = u]
           /\ pc' = [pc EXCEPT ![r] = IF u = None THEN "NotFound" ELSE "Resolved"]
    /\ calls' = [calls EXCEPT ![r] =
                   @ \cup {"get_current_user", "fake_decode_token", "get_user"}]
    /\ seen' = [seen EXCEPT ![r] = issued]
    /\ UNCHANGED <<fake_users_db, req, token, response, issued>>

\* get_current_user: user = fake_decode_token(token)
DecodeToken(r) ==
    /\ pc[r] = "TokenPresented"
    /\ LET u == fake_decode_token(fake_users_db, token[r])
       IN  /\ user' = [user EXCEPT ![r] = u]
           /\ pc' = [pc EXCEPT ![r] = IF u = None THEN "NotFound" ELSE "Resolved"]
    /\ calls' = [calls EXCEPT ![r] =
                   @ \cup {"get_current_user", "fake_decode_token", "get_user"}]
    /\ seen' = [seen EXCEPT ![r] = issued]
    /\ UNCHANGED <<fake_users_db, req, token, response, issued>>

\* Variant: a missing user is not checked for and reaches the disabled check,
\* which fails on it.
RejectUnknownFallsThrough(r) ==
    /\ pc[r] = "NotFound"
    /\ pc' = [pc EXCEPT ![r] = "Rejected"]
    /\ response' = [response EXCEPT ![r] =
                      [status_code |-> 500,
                       body        |-> [detail |-> "Internal Server Error"],
                       headers     |-> NoHeaders]]
    /\ calls' = [calls EXCEPT ![r] = @ \cup {"get_current_active_user"}]
    /\ UNCHANGED <<fake_users_db, req, token, user, issued, seen>>

\* get_current_user: if not user: raise HTTPException(401, ...)
RejectUnknown(r) ==
    /\ pc[r] = "NotFound"
    /\ pc' = [pc EXCEPT ![r] = "Rejected"]
    /\ response' = [response EXCEPT ![r] = ErrorResponse(CredentialsException)]
    /\ UNCHANGED <<fake_users_db, req, token, user, calls, issued, seen>>

\* get_current_user returns the user; get_current_active_user; read_users_me
ActiveUserGate(r) ==
    /\ pc[r] = "Resolved"
    /\ LET active == get_current_active_user(user[r])
       IN  IF active.raised
           THEN /\ pc' = [pc EXCEPT ![r] = "Rejected"]
                /\ response' = [response EXCEPT ![r] = ToResponse(active)]
                /\ calls' = [calls EXCEPT ![r] = @ \cup {"get_current_active_user"}]
           ELSE /\ pc' = [pc EXCEPT ![r] = "Authorized"]
                /\ response' = [response EXCEPT ![r] =
                                  OkResponse(read_users_me(active.value))]
                /\ calls' = [calls EXCEPT ![r] =
                               @ \cup {"get_current_active_user", "read_users_me"}]
    /\ UNCHANGED <<fake_users_db, req, token, user, issued, seen>>

StepMe(r) ==
    \/ ExtractToken(r)
    \/ DecodeToken(r)
    \/ RejectUnknown(r)
    \/ ActiveUserGate(r)

Next ==
    \/ \E r \in Requests, username \in Usernames, password \in Passwords :
           Login(r, username, password)
    \/ \E r \in Requests, authorization \in Authorizations :
           BeginMe(r, authorization)
    \/ \E r \in Requests : ExtractToken(r)
    \/ \E r \in Requests : DecodeToken(r)
    \/ \E r \in Requests : RejectUnknown(r)
    \/ \E r \in Requests : ActiveUserGate(r)

Spec == Init /\ [][Next]_vars

\* The server keeps handling while a request is waiting for a stage: every
\* stage is synchronous and bounded.
FairSpec == Spec /\ WF_vars(\E r \in Requests : StepMe(r))

(***************************************************************************)
(* Properties.                                                             *)
(***************************************************************************)
IsMe(r)    == pc[r] \in {"NoToken", "TokenPresented", "Resolved", "NotFound",
                         "Authorized", "Rejected"}
IsLogin(r) == pc[r] \in LoginDone

InvalidCredentialsBody == [detail |-> "Incorrect username or password"]

\* C1: no response of GET /users/me to an authorized request contains the
\* field hashed_password.
C1_NoHashedPasswordInResponse ==
    \A r \in Requests :
        pc[r] = "Authorized" => "hashed_password" \notin DOMAIN response[r].body

\* C2: for a stored username, login with the password whose hash
\* "fakehashed" + password equals the stored hashed_password answers 200 with
\* {access_token: username, token_type: "bearer"}; with any other password it
\* answers 400 "Incorrect username or password" and no token.
C2_LoginChecksPassword ==
    \A r \in Requests :
        (IsLogin(r) /\ req[r].username \in DOMAIN SeedUsers) =>
            IF "fakehashed" \o req[r].password
                   = SeedUsers[req[r].username].hashed_password
            THEN /\ pc[r] = "LoginOk"
                 /\ response[r].status_code = 200
                 /\ response[r].body = [access_token |-> req[r].username,
                                        token_type   |-> "bearer"]
            ELSE /\ pc[r] = "LoginFailed"
                 /\ response[r].status_code = 400
                 /\ response[r].body = InvalidCredentialsBody

C2_Witness ==
    \E r1, r2 \in Requests :
        /\ pc[r1] = "LoginOk" /\ req[r1].username = "johndoe"
        /\ req[r1].password = "secret1"
        /\ pc[r2] = "LoginFailed" /\ req[r2].username = "johndoe"
        /\ req[r2].password = "secret"

\* C3: for a username that is not a key of the store, login with any password
\* answers 400 "Incorrect username or password" and returns no token.
C3_UnknownUserRejected ==
    \A r \in Requests :
        (IsLogin(r) /\ req[r].username \notin DOMAIN SeedUsers) =>
            /\ pc[r] = "LoginFailed"
            /\ response[r].status_code = 400
            /\ response[r].body = InvalidCredentialsBody
            /\ "access_token" \notin DOMAIN response[r].body
            /\ req[r].username \notin issued

C3_Witness ==
    \E r \in Requests :
        /\ pc[r] = "LoginFailed" /\ req[r].username = "bob"
        /\ response[r].status_code = 400

\* C4: round trip: the access_token of a successful login decodes
\* (fake_decode_token / get_user) to a user whose username is the one logged in
\* with, and a request presenting an issued token resolves to that user.
C4_RoundTrip ==
    /\ \A r \in Requests :
          pc[r] = "LoginOk" =>
              LET u == fake_decode_token(fake_users_db, response[r].body.access_token)
              IN  u # None /\ u.username = req[r].username
    /\ \A r \in Requests :
          (IsMe(r) /\ token[r] \in issued) =>
              /\ pc[r] # "NotFound"
              /\ pc[r] \in {"Resolved", "Authorized"} => user[r].username = token[r]

C4_Witness ==
    \E r1, r2, r3 \in Requests :
        /\ pc[r1] = "LoginOk" /\ req[r1].username = "johndoe"
        /\ pc[r2] = "LoginOk" /\ req[r2].username = "alice"
        /\ pc[r3] = "Resolved" /\ token[r3] = "alice" /\ "alice" \in seen[r3]

\* C5: every request whose token resolves to alice (disabled) is rejected with
\* 400 "Inactive user"; no request is ever Authorized as alice, also after
\* alice logged in successfully.
C5_DisabledUserRejected ==
    \A r \in Requests :
        (IsMe(r) /\ token[r] = "alice") =>
            /\ pc[r] # "Authorized"
            /\ pc[r] = "Rejected" =>
                   /\ response[r].status_code = 400
                   /\ response[r].body = [detail |-> "Inactive user"]

C5_Witness ==
    \E r1, r2 \in Requests :
        /\ pc[r1] = "LoginOk" /\ req[r1].username = "alice"
        /\ pc[r2] = "Rejected" /\ token[r2] = "alice" /\ "alice" \in seen[r2]
        /\ response[r2].status_code = 400

JohnDoeRecord ==
    [username  |-> "johndoe",
     full_name |-> "John Doe",
     email     |-> "johndoe@example.com",
     disabled  |-> FALSE]

\* C6: after johndoe logged in with the correct password, a request presenting
\* the returned token is authorized and answered with exactly
\* {username: "johndoe", full_name: "John Doe", email: "johndoe@example.com",
\* disabled: false}, no other field.
C6_JohnDoeExactRecord ==
    \A r \in Requests :
        (IsMe(r) /\ token[r] = "johndoe" /\ "johndoe" \in seen[r]
                 /\ pc[r] \in Terminal) =>
            /\ pc[r] = "Authorized"
            /\ response[r].status_code = 200
            /\ response[r].body = JohnDoeRecord

\* C7: a presented token that is not a key of the store is answered 401
\* "Invalid authentication credentials" with WWW-Authenticate: Bearer; the
\* disabled check and the handler are not reached.
C7_UnknownTokenUnauthenticated ==
    \A r \in Requests :
        (IsMe(r) /\ token[r] # Unset /\ token[r] \notin DOMAIN SeedUsers) =>
            /\ pc[r] \in {"TokenPresented", "NotFound", "Rejected"}
            /\ pc[r] = "Rejected" =>
                   /\ response[r].status_code = 401
                   /\ response[r].body = [detail |-> "Invalid authentication credentials"]
                   /\ <<"WWW-Authenticate", "Bearer">> \in response[r].headers
            /\ calls[r] \cap {"get_current_active_user", "read_users_me"} = {}

C7_Witness ==
    \E r \in Requests :
        /\ pc[r] = "Rejected" /\ token[r] = "bob"
        /\ "get_current_user" \in calls[r]

\* The transitions of the request state machine.
Transitions ==
    {<<"idle", "NoToken">>, <<"NoToken", "TokenPresented">>,
     <<"TokenPresented", "Resolved">>, <<"TokenPresented", "NotFound">>,
     <<"Resolved", "Authorized">>,
     <<"NoToken", "Rejected">>, <<"NotFound", "Rejected">>,
     <<"Resolved", "Rejected">>}

\* A token was presented, it names a stored user, and that user is not disabled.
ShouldAuthorize(authorization) ==
    /\ authorization # None
    /\ authorization.scheme = "Bearer"
    /\ authorization.param \in DOMAIN SeedUsers
    /\ ~SeedUsers[authorization.param].disabled

\* C8: every request to GET /users/me moves NoToken -> TokenPresented ->
\* Resolved|NotFound, always ends in Authorized or Rejected, ends in Authorized
\* exactly when a token was presented that resolves to a stored user who is
\* not disabled, and takes no step from a terminal state.
\* (Ending: time and again every received request is in a terminal state; as
\* terminal states are final, each received request reaches one and stays.)
C8_RequestStateMachine ==
    /\ [][\A r \in Requests :
            /\ (IsMe(r) \/ IsMe(r)') =>
                   (pc[r] = pc'[r] \/ <<pc[r], pc'[r]>> \in Transitions)
            /\ pc[r] \in Terminal =>
                   (pc'[r] = pc[r] /\ response'[r] = response[r])]_vars
    /\ [](\A r \in Requests :
            pc[r] \in Terminal =>
                (pc[r] = "Authorized" <=> ShouldAuthorize(req[r].authorization)))
    /\ []<>(\A r \in Requests : IsMe(r) => pc[r] \in Terminal)

C8_Witness ==
    \E r1, r2, r3 \in Requests :
        /\ pc[r1] = "Authorized" /\ calls[r1] # {}
        /\ pc[r2] = "Rejected" /\ token[r2] = Unset
        /\ pc[r3] = "Rejected" /\ token[r3] = "bob"

\* The answer a request gets when it is the only request, against the store
\* as constructed at startup.
AloneOutcome(request) ==
    IF request.kind = "login"
    THEN ToResponse(login(SeedUsers, request.username, request.password))
    ELSE ToResponse(users_me(SeedUsers, request.authorization))

\* C9: under any interleaving of login and GET /users/me requests the store is
\* never modified, and every request is answered as it would be if run alone
\* against the store constructed at startup.
C9_StoreReadOnly ==
    /\ fake_users_db = SeedUsers
    /\ \A r \in Requests :
          (pc[r] \in Terminal \cup LoginDone) => response[r] = AloneOutcome(req[r])

C9_Witness ==
    \E r1, r2, r3 \in Requests :
        /\ pc[r1] = "LoginOk" /\ req[r1].username = "alice"
        /\ pc[r2] = "Rejected" /\ token[r2] = "alice" /\ seen[r2] = {}
        /\ pc[r3] = "Resolved" /\ token[r3] = "alice" /\ "alice" \in seen[r3]

\* C10: the outcome of GET /users/me depends only on the presented token and
\* the store, not on the logins before it: requests presenting the same token
\* are answered alike whatever had been issued when they were decoded, and the
\* username of a stored, enabled user is authorized as a token also when no
\* login ever succeeded.
C10_OutcomeIgnoresLoginHistory ==
    /\ \A r1, r2 \in Requests :
          (pc[r1] \in Terminal /\ pc[r2] \in Terminal
             /\ req[r1].authorization = req[r2].authorization) =>
              (pc[r1] = pc[r2] /\ response[r1] = response[r2])
    /\ \A r \in Requests :
          (pc[r] \in Terminal /\ token[r] \in DOMAIN SeedUsers
             /\ ~SeedUsers[token[r]].disabled) => pc[r] = "Authorized"

C10_Witness ==
    \E r1, r2 \in Requests :
        /\ pc[r1] = "Authorized" /\ token[r1] = "johndoe" /\ seen[r1] = {}
        /\ pc[r2] = "Authorized" /\ token[r2] = "johndoe" /\ "johndoe" \in seen[r2]
====
